---- MODULE Spec2Model ----
(***************************************************************************)
(* Model of robotframework_interpreter/interpreter.py: the incremental     *)
(* executor `execute` over a persistent TestSuite, the item-list helpers   *)
(* and the run-mode query `get_rpa_mode`.                                  *)
(*                                                                         *)
(* A snippet ("cell") is identified with the model the parser builds from  *)
(* it: a flag telling whether ErrorReporter meets a fatal error, and the   *)
(* ordered sections with the named items each declares.  The suite runtime *)
(* (TestSuite.run) is external: its outcome is a nondeterministic choice   *)
(* between a normal return, the TestSuiteError raised by the error stream  *)
(* and any other exception.                                                *)
(***************************************************************************)
EXTENDS Integers, Sequences, FiniteSets, TLC

VARIABLES
    suite,      \* the TestSuite: resource.imports/variables/keywords, tests, rpa
    pc,         \* position inside execute: "idle" (no call in progress), "run", "notify", "clean"
    code,       \* execute's argument `code`, as the parsed model
    listeners,  \* execute's argument `listeners`
    snap,       \* execute's locals imports/variables/keywords (lines 56-58)
    held_dirs,  \* number of TemporaryDirectory objects currently held
    index,      \* keyword index of every RobotKeywordsIndexerListener
    exc,        \* the exception the caller of the last finished call observed
    run_exc,    \* the exception suite.run raised in the last run
    calls,      \* history: number of execute calls started
    outcome,    \* history: how the most recently finished call ended
    pre,        \* history: the suite, the standing declarations and the index at entry of the last call
    declared,   \* history: latest standing definition of every variable/keyword name
    ran,        \* history: the calls in which suite.run was invoked
    handed,     \* history: <<test, call>> for every test present when suite.run was invoked
    imported,   \* history: per entry of `listeners`, import_from_suite_data invocations in the last call
    shared_defaults, \* the TestDefaults() object made once as the default of `defaults` (line 53)
    stderr,     \* execute's local `stderr` after lines 75-76: the stream of the current call
    defaults_arg,    \* history: whether the last call was given `defaults` ("given") or not ("omitted")
    merge_defaults,  \* history: what the defaults object held when the last merge began
    mode_left,  \* history: the mode flag as the last normally returned call (or init_suite) left it
    qmodel,     \* run-mode query: the argument of get_rpa_mode
    qresult,    \* run-mode query: its result
    es_message, \* ErrorStream.message
    es_signal,  \* ErrorStream: what the last operation raised
    es_since,   \* ErrorStream history: the texts written since the last flush, in order
    es_ops,     \* ErrorStream history: number of operations so far
    creq,       \* complete: the arguments of the last call
    cres        \* complete: what the last call returned or raised

execVars == <<suite, pc, code, listeners, snap, held_dirs, index, exc, run_exc, calls,
              outcome, pre, declared, ran, handed, imported, shared_defaults, stderr,
              defaults_arg, merge_defaults, mode_left>>

queryVars == <<qmodel, qresult>>

streamVars == <<es_message, es_signal, es_since, es_ops>>

completeVars == <<creq, cres>>

\* what execute neither reads nor writes
sideVars == <<queryVars, streamVars, completeVars>>

vars == <<execVars, queryVars, streamVars, completeVars>>

(***************************************************************************)
(* Bounds                                                                  *)
(***************************************************************************)
MaxCalls == 3
MaxSections == 4
MaxOps == 3
MaxLen == 4

Range(s) == {s[i] : i \in DOMAIN s}

names(items) == {items[i].name : i \in DOMAIN items}

(***************************************************************************)
(* Snippets                                                                *)
(***************************************************************************)
Item(n, v) == [name |-> n, value |-> v]

Section(k, its) == [kind |-> k, items |-> its]

Snippets ==
    { \* ${X} defined twice in one snippet, a keyword, two tests of one name
      [fatal |-> FALSE, sections |->
          << Section("Variables", <<Item("${X}", 1), Item("${X}", 2)>>),
             Section("Keywords", <<Item("K", 1)>>),
             Section("Test Cases", <<Item("T", 1), Item("T", 5)>>) >>],
      \* a library import, a suite-level test default, a redefinition of ${X}, a new ${V},
      \* a new body for K, a task
      [fatal |-> FALSE, sections |->
          << Section("Settings", <<Item("Collections", 1), Item("Test Timeout", 1)>>),
             Section("Variables", <<Item("${X}", 3), Item("${V}", 1)>>),
             Section("Keywords", <<Item("K", 2)>>),
             Section("Tasks", <<Item("T", 2)>>) >>],
      \* declarations only: the same import again, K defined twice
      [fatal |-> FALSE, sections |->
          << Section("Settings", <<Item("Collections", 1)>>),
             Section("Keywords", <<Item("K", 3), Item("K", 4)>>) >>],
      \* a Test Cases section and a Tasks section in one snippet
      [fatal |-> FALSE, sections |->
          << Section("Variables", <<Item("${V}", 2)>>),
             Section("Test Cases", <<Item("T", 3)>>),
             Section("Tasks", <<Item("U", 1)>>) >>],
      \* a snippet with a fatal parsing error
      [fatal |-> TRUE, sections |->
          << Section("Variables", <<Item("${V}", 3)>>),
             Section("Test Cases", <<Item("T", 4)>>) >>],
      \* the empty snippet
      [fatal |-> FALSE, sections |-> << >>] }

VarNames == {"${X}", "${V}"}

KwNames == {"K"}

Indexers == {"kw1", "kw2"}

ListenerLists == { << >>, <<"obs", "kw1">>, <<"kw1", "kw2">> }

\* the optional arguments of a call of execute: the listeners, and whether `defaults` is
\* omitted or given (a TestDefaults() the caller has just made)
CallArgs ==
    {[listeners |-> ls, defaults |-> "omitted"] : ls \in ListenerLists}
    \cup {[listeners |-> << >>, defaults |-> "given"]}

(***************************************************************************)
(* Item-list utilities                                                     *)
(***************************************************************************)
\* new_items[item.name] = item on an insertion-ordered dict
dict_set(d, item) ==
    IF \E i \in DOMAIN d : d[i].name = item.name
    THEN [i \in DOMAIN d |-> IF d[i].name = item.name THEN item ELSE d[i]]
    ELSE Append(d, item)

RECURSIVE dict_fill(_, _)
dict_fill(d, items) ==
    IF items = << >> THEN d ELSE dict_fill(dict_set(d, Head(items)), Tail(items))

\* mutant: the list is left as it is
strip_duplicate_items_none(items) == items

\* mutant: the first definition of a name wins
RECURSIVE strip_duplicate_items_first(_)
strip_duplicate_items_first(items) ==
    IF items = << >> THEN << >>
    ELSE LET rest == strip_duplicate_items_first(SubSeq(items, 1, Len(items) - 1))
             last == items[Len(items)]
         IN IF \E i \in DOMAIN rest : rest[i].name = last.name THEN rest
            ELSE Append(rest, last)

strip_duplicate_items(items) == dict_fill(<< >>, items)

\* mutant: the list is left as it is
clean_items_keep(items) == items

clean_items(items) == << >>

\* mutant: the value is dropped
set_items_keep(items, value) == items

set_items(items, value) == value

get_items_copy(items) == [i \in DOMAIN items |-> items[i]]

(***************************************************************************)
(* The builders: SuiteBuilder appends every declaration of the snippet to  *)
(* the suite's collections, section by section.  A test carries the call   *)
(* that created it: two tests of the same name built by two calls are two  *)
(* objects.                                                                *)
(***************************************************************************)
RECURSIVE section_items(_, _)
section_items(sections, kinds) ==
    IF sections = << >> THEN << >>
    ELSE (IF Head(sections).kind \in kinds THEN Head(sections).items ELSE << >>)
         \o section_items(Tail(sections), kinds)

TestKinds == {"Test Cases", "Tasks"}

built_tests(model, cell) ==
    LET its == section_items(model.sections, TestKinds)
    IN  [i \in DOMAIN its |-> [name |-> its[i].name, value |-> its[i].value, cell |-> cell]]

\* the settings that SettingsBuilder stores in the TestDefaults object
TestSettingNames == {"Test Timeout"}

is_test_setting(item) == item.name \in TestSettingNames

is_import(item) == item.name \notin TestSettingNames

\* TestDefaults(): no default set
EmptyDefaults == [timeout |-> 0]

\* SettingsBuilder(suite, defaults).visit(model): the defaults object after the visit
SettingsBuilder(defaults, model) ==
    LET set == SelectSeq(section_items(model.sections, {"Settings"}), is_test_setting)
    IN  IF set = << >> THEN defaults ELSE [defaults EXCEPT !.timeout = set[Len(set)].value]

SuiteBuilder(s, model, cell) ==
    [s EXCEPT !.imports = @ \o SelectSeq(section_items(model.sections, {"Settings"}), is_import),
              !.variables = @ \o section_items(model.sections, {"Variables"}),
              !.keywords = @ \o section_items(model.sections, {"Keywords"}),
              !.tests = @ \o built_tests(model, cell)]

\* ErrorReporter(code).visit(model) raises DataError on a fatal error
ErrorReporter(model) == model.fatal

\* mutant: the builders run before the error is reported
compile_and_merge_late(s, model, cell) ==
    LET m == SuiteBuilder(s, model, cell)
    IN  [m EXCEPT !.variables = strip_duplicate_items(@),
                  !.keywords = strip_duplicate_items(@)]

\* lines 60-72: the suite after parsing, error check, merge and deduplication
compile_and_merge(s, model, cell) ==
    IF ErrorReporter(model) THEN s
    ELSE LET m == SuiteBuilder(s, model, cell)
         IN  [m EXCEPT !.variables = strip_duplicate_items(@),
                       !.keywords = strip_duplicate_items(@)]

(***************************************************************************)
(* Run-mode query                                                          *)
(***************************************************************************)
NoModel == [none |-> TRUE]

hasattr_tasks(s) == s.kind \in TestKinds

section_tasks(sections) ==
    LET with == SelectSeq(sections, hasattr_tasks)
    IN  [i \in DOMAIN with |-> with[i].kind = "Tasks"]

py_all(bs) == \A i \in DOMAIN bs : bs[i]

py_any(bs) == \E i \in DOMAIN bs : bs[i]

py_bool(b) == IF b THEN "True" ELSE "False"

\* mutant: the first section decides, sections are not compared
get_rpa_mode_first(model) ==
    IF "none" \in DOMAIN model THEN "None"
    ELSE LET tasks == section_tasks(model.sections)
         IN  IF tasks # << >> THEN py_bool(tasks[1]) ELSE "None"

\* mutant: a snippet without test or task section counts as test mode
get_rpa_mode_default(model) ==
    IF "none" \in DOMAIN model THEN "None"
    ELSE LET tasks == section_tasks(model.sections)
         IN  IF py_all(tasks) \/ ~py_any(tasks)
             THEN (IF tasks # << >> THEN py_bool(tasks[1]) ELSE "False")
             ELSE "DataError"

\* "None", "True" (task mode), "False" (test mode), or "DataError" when it raises
get_rpa_mode(model) ==
    IF "none" \in DOMAIN model THEN "None"
    ELSE LET tasks == section_tasks(model.sections)
         IN  IF py_all(tasks) \/ ~py_any(tasks)
             THEN (IF tasks # << >> THEN py_bool(tasks[1]) ELSE "None")
             ELSE "DataError"

(***************************************************************************)
(* Listeners                                                               *)
(***************************************************************************)
isinstance_indexer(l) == l \in Indexers

\* mutant: the isinstance test is missing
notified_all(ls) == [i \in DOMAIN ls |-> 1]

\* lines 95-97: how often each entry of listeners has import_from_suite_data invoked
notified(ls) == [i \in DOMAIN ls |-> IF isinstance_indexer(ls[i]) THEN 1 ELSE 0]

\* RobotKeywordsIndexerListener.import_from_suite_data: the keywords of the suite enter the index
import_from_suite_data(idx, s) == idx \cup Range(s.keywords)

(***************************************************************************)
(* History: the latest standing definition of every name (0: none)         *)
(***************************************************************************)
RECURSIVE declare(_, _)
declare(d, items) ==
    IF items = << >> THEN d
    ELSE declare([d EXCEPT ![Head(items).name] = Head(items).value], Tail(items))

NoExc == [type |-> "None", call |-> 0]

\* mutant: the directory is removed after the run only, not when the run raises
with_exit_leak(held, raised) == IF raised THEN held ELSE held - 1

\* line 79: leaving the with block, by return or by exception, releases the directory
with_exit(held, raised) == held - 1

\* mutant: the mode flag is set when the snippet is merged
mode_after_merge_early(rpa, model) ==
    IF get_rpa_mode(model) = "DataError" THEN rpa ELSE get_rpa_mode(model)

\* lines 60-72 do not assign suite.rpa
mode_after_merge(rpa, model) == rpa

(***************************************************************************)
(* execute                                                                 *)
(***************************************************************************)
QueryIdle == qmodel = NoModel /\ qresult = "unset"

NoSignal == [op |-> "none", raised |-> FALSE, payload |-> << >>]

StreamIdle ==
    /\ es_message = << >>
    /\ es_signal = NoSignal
    /\ es_since = << >>
    /\ es_ops = 0

NoRequest == [none |-> TRUE]

CompleteIdle == creq = NoRequest /\ cres = NoRequest

\* init_suite: an empty suite with the mode flag rpa0; nothing has been executed
ExecInit(rpa0) ==
    /\ suite = [imports |-> << >>, variables |-> << >>, keywords |-> << >>,
                tests |-> << >>, rpa |-> rpa0]
    /\ pc = "idle"
    /\ code = [fatal |-> FALSE, sections |-> << >>]
    /\ listeners = << >>
    /\ snap = [imports |-> << >>, variables |-> << >>, keywords |-> << >>]
    /\ held_dirs = 0
    /\ index = [l \in Indexers |-> {}]
    /\ exc = NoExc
    /\ run_exc = NoExc
    /\ calls = 0
    /\ outcome = "none"
    /\ declared = [vars |-> [n \in VarNames |-> 0], kws |-> [n \in KwNames |-> 0]]
    /\ pre = [suite |-> suite, declared |-> declared, index |-> index]
    /\ ran = {}
    /\ handed = {}
    /\ imported = << >>
    /\ shared_defaults = EmptyDefaults
    /\ stderr = [call |-> 0, message |-> << >>]
    /\ defaults_arg = "omitted"
    /\ merge_defaults = EmptyDefaults
    /\ mode_left = rpa0

\* init_suite: an empty suite; what TestSuite() leaves in rpa (None or False) depends
\* on the robot release, so both are initial states
Init ==
    /\ \E rpa0 \in {"None", "False"} : ExecInit(rpa0)
    /\ QueryIdle
    /\ StreamIdle
    /\ CompleteIdle

\* lines 53-79: snapshot, parse, error check, merge, dedup; a fatal error raises DataError
Execute(c, ls, d) ==
    /\ pc = "idle"
    /\ calls < MaxCalls
    /\ calls' = calls + 1
    /\ code' = c
    /\ listeners' = ls
    /\ snap' = [imports |-> get_items_copy(suite.imports),
                variables |-> get_items_copy(suite.variables),
                keywords |-> get_items_copy(suite.keywords)]
    /\ pre' = [suite |-> suite, declared |-> declared, index |-> index]
    /\ imported' = [i \in DOMAIN ls |-> 0]
    /\ defaults_arg' = d
    /\ merge_defaults' = IF d = "omitted" THEN shared_defaults ELSE EmptyDefaults
    /\ suite' = LET m == compile_and_merge(suite, c, calls + 1)
                IN  [m EXCEPT !.rpa = mode_after_merge(@, c)]
    /\ IF ErrorReporter(c)
       THEN /\ pc' = "idle"
            /\ outcome' = "compile_error"
            /\ exc' = [type |-> "DataError", call |-> calls + 1]
            /\ UNCHANGED <<held_dirs, declared, shared_defaults, stderr>>
       ELSE /\ pc' = "run"
            /\ shared_defaults' = IF d = "omitted" THEN SettingsBuilder(shared_defaults, c)
                                  ELSE shared_defaults
            /\ stderr' = [call |-> calls + 1, message |-> << >>]
            /\ held_dirs' = held_dirs + 1
            /\ declared' = [vars |-> declare(declared.vars, section_items(c.sections, {"Variables"})),
                            kws |-> declare(declared.kws, section_items(c.sections, {"Keywords"}))]
            /\ UNCHANGED <<outcome, exc>>
    /\ UNCHANGED <<index, run_exc, ran, handed, mode_left, sideVars>>

\* suite.run is entered with the suite as it is
RunEntered ==
    /\ pc = "run"
    /\ ran' = ran \cup {calls}
    /\ handed' = handed \cup {<<t, calls>> : t \in Range(suite.tests)}
    /\ UNCHANGED <<shared_defaults, stderr, defaults_arg, merge_defaults, mode_left>>

\* lines 80-84: the run returns
RunOk ==
    /\ RunEntered
    /\ pc' = "notify"
    /\ run_exc' = NoExc
    /\ held_dirs' = with_exit(held_dirs, FALSE)
    /\ UNCHANGED <<suite, code, listeners, snap, index, exc, calls, outcome, pre,
                   declared, imported, sideVars>>

\* lines 85-93: the run raises TestSuiteError; restore, clear the tests, re-raise
RunTestSuiteError ==
    /\ RunEntered
    /\ run_exc' = [type |-> "TestSuiteError", call |-> calls]
    /\ held_dirs' = with_exit(held_dirs, TRUE)
    /\ suite' = [suite EXCEPT !.imports = set_items(@, snap.imports),
                              !.variables = set_items(@, snap.variables),
                              !.keywords = set_items(@, snap.keywords),
                              !.tests = clean_items(@)]
    /\ exc' = run_exc'
    /\ pc' = "idle"
    /\ outcome' = "TestSuiteError"
    /\ declared' = pre.declared
    /\ UNCHANGED <<code, listeners, snap, index, calls, pre, imported, sideVars>>

\* the run raises an exception that is no TestSuiteError: no handler, it leaves execute
RunOtherException ==
    /\ RunEntered
    /\ run_exc' = [type |-> "Exception", call |-> calls]
    /\ held_dirs' = with_exit(held_dirs, TRUE)
    /\ exc' = run_exc'
    /\ pc' = "idle"
    /\ outcome' = "exception"
    /\ UNCHANGED <<suite, code, listeners, snap, index, calls, pre, declared,
                   imported, sideVars>>

\* lines 95-97: every keyword-indexing listener imports from the suite
NotifyListeners ==
    /\ pc = "notify"
    /\ imported' = notified(listeners)
    /\ index' = [l \in Indexers |->
                    IF \E i \in DOMAIN listeners : listeners[i] = l /\ isinstance_indexer(l)
                    THEN import_from_suite_data(index[l], suite) ELSE index[l]]
    /\ pc' = "clean"
    /\ UNCHANGED <<suite, code, listeners, snap, held_dirs, exc, run_exc, calls, outcome,
                   pre, declared, ran, handed, shared_defaults, stderr, defaults_arg,
                   merge_defaults, mode_left, sideVars>>

\* lines 99-106: clear the tests, then set the mode flag; get_rpa_mode may raise DataError
Finish ==
    /\ pc = "clean"
    /\ LET mode == get_rpa_mode(code)
       IN  IF mode = "DataError"
           THEN /\ suite' = [suite EXCEPT !.tests = clean_items(@)]
                /\ outcome' = "mode_conflict"
                /\ exc' = [type |-> "DataError", call |-> calls]
           ELSE /\ suite' = [suite EXCEPT !.tests = clean_items(@), !.rpa = mode]
                /\ outcome' = "ok"
                /\ exc' = NoExc
    /\ mode_left' = suite'.rpa
    /\ pc' = "idle"
    /\ UNCHANGED <<code, listeners, snap, held_dirs, index, run_exc, calls, pre, declared,
                   ran, handed, imported, shared_defaults, stderr, defaults_arg,
                   merge_defaults, sideVars>>

Next ==
    \/ \E c \in Snippets, a \in CallArgs : Execute(c, a.listeners, a.defaults)
    \/ RunOk
    \/ RunTestSuiteError
    \/ RunOtherException
    \/ NotifyListeners
    \/ Finish

Spec == Init /\ [][Next]_vars

(***************************************************************************)
(* The run-mode query on its own: every model of up to MaxSections         *)
(* sections, and no model at all.                                          *)
(***************************************************************************)
QueryKinds == {"Keywords", "Test Cases", "Tasks"}

QueryModels ==
    {NoModel} \cup
    {[fatal |-> FALSE, sections |-> [i \in DOMAIN ks |-> Section(ks[i], << >>)]] :
        ks \in UNION {[1..n -> QueryKinds] : n \in 0..MaxSections}}

InitQuery ==
    /\ ExecInit("None")
    /\ qmodel \in QueryModels
    /\ qresult = "unset"
    /\ StreamIdle
    /\ CompleteIdle

\* lines 195-202: one call of get_rpa_mode
QueryRpaMode ==
    /\ qresult = "unset"
    /\ qresult' = get_rpa_mode(qmodel)
    /\ UNCHANGED <<qmodel, execVars, streamVars, completeVars>>

NextQuery == QueryRpaMode

SpecQuery == InitQuery /\ [][NextQuery]_vars

(***************************************************************************)
(* Properties                                                              *)
(***************************************************************************)
unique_names(items) == \A i, j \in DOMAIN items : i # j => items[i].name # items[j].name

Returned == pc = "idle" /\ outcome = "ok"

Raised == pc = "idle" /\ outcome \in {"compile_error", "TestSuiteError", "exception", "mode_conflict"}

declarations(s) == <<s.imports, s.variables, s.keywords>>

code_variables == section_items(code.sections, {"Variables"})

code_keywords == section_items(code.sections, {"Keywords"})

\* C1: when the run raises TestSuiteError, the caller finds the imports, variables and
\* keywords of the suite as they were at entry of execute, no tests in the suite, and
\* the exception it gets is the one the run raised.
C1_RollbackOnErrorSignal ==
    (pc = "idle" /\ outcome = "TestSuiteError") =>
        /\ suite.imports = pre.suite.imports
        /\ suite.variables = pre.suite.variables
        /\ suite.keywords = pre.suite.keywords
        /\ suite.tests = << >>
        /\ exc = run_exc
        /\ exc = [type |-> "TestSuiteError", call |-> calls]

\* C1 witness: a failed run of a snippet that redefines a variable of the suite and adds a new one
C1_Witness ==
    /\ pc = "idle" /\ outcome = "TestSuiteError"
    /\ \E n \in names(code_variables) : n \in names(pre.suite.variables)
    /\ \E n \in names(code_variables) : n \notin names(pre.suite.variables)
    /\ section_items(code.sections, TestKinds) # << >>

\* C2: no test is present in the suite at the invocation of suite.run in two different
\* execute calls, whatever the outcome of the calls.
C2_AtMostOnce ==
    \A p, q \in handed : p[1] = q[1] => p[2] = q[2]

\* C3: every execute call that raises leaves imports, variables and keywords as they
\* were at its entry.
C3_AllOrNothing ==
    Raised => declarations(suite) = declarations(pre.suite)

\* C4: a call that raises the compile error leaves imports, variables, keywords, tests
\* and the mode flag as at entry, never invokes the runtime, and the caller gets the
\* DataError.
C4_CompileErrorUntouched ==
    (pc = "idle" /\ outcome = "compile_error") =>
        /\ suite = pre.suite
        /\ calls \notin ran
        /\ \A p \in handed : p[2] # calls
        /\ exc = [type |-> "DataError", call |-> calls]

\* C4 witness: a compile error of a snippet with declarations, on a suite that has some
C4_Witness ==
    /\ pc = "idle" /\ outcome = "compile_error"
    /\ code_variables # << >>
    /\ pre.suite.variables # << >>
    /\ pre.suite.keywords # << >>

\* C5: when the runtime is invoked for the call that follows a call that returned
\* normally, the suite holds every test of the current snippet and no test built by an
\* earlier call.
C5_OnlyNewTestsRun ==
    (pc = "run" /\ outcome = "ok") =>
        /\ \A t \in Range(built_tests(code, calls)) : t \in Range(suite.tests)
        /\ \A t \in Range(suite.tests) : t.cell = calls

\* C5 witness: the run of a snippet with tests, after a call with tests that returned normally
C5_Witness ==
    /\ pc = "run" /\ outcome = "ok"
    /\ suite.tests # << >>
    /\ \E p \in handed : p[2] = calls - 1

\* C6 (as claimed): after a call that returned normally none of imports, variables,
\* keywords and tests holds two entries of one name.
C6_AllCollectionsUnique ==
    Returned =>
        /\ unique_names(suite.imports)
        /\ unique_names(suite.variables)
        /\ unique_names(suite.keywords)
        /\ unique_names(suite.tests)

\* C6 (amended): after a call that returned normally none of variables, keywords and
\* tests holds two entries of one name.
C6_DeclarationsUnique ==
    Returned =>
        /\ unique_names(suite.variables)
        /\ unique_names(suite.keywords)
        /\ unique_names(suite.tests)

\* C6 witness: a normal return of a snippet that declares again a variable and a
\* keyword of an earlier cell
C6_Witness ==
    /\ Returned
    /\ \E n \in names(code_variables) : n \in names(pre.suite.variables)
    /\ \E n \in names(code_keywords) : n \in names(pre.suite.keywords)

holds_one(items, n, v) ==
    /\ Cardinality({i \in DOMAIN items : items[i].name = n}) = 1
    /\ \A i \in DOMAIN items : items[i].name = n => items[i].value = v

\* C7: after a call that returned normally the suite holds, for every variable name and
\* keyword name with a standing declaration, exactly one entry, and it carries the
\* latest definition; and at the invocation of the runtime no two variables and no two
\* keywords share a name.
C7_LastWriteWins ==
    /\ Returned =>
          /\ \A n \in VarNames :
                declared.vars[n] # 0 => holds_one(suite.variables, n, declared.vars[n])
          /\ \A n \in KwNames :
                declared.kws[n] # 0 => holds_one(suite.keywords, n, declared.kws[n])
    /\ pc = "run" => unique_names(suite.variables) /\ unique_names(suite.keywords)

\* C7 witness: a normal return of a snippet that defines twice a variable an earlier
\* cell has defined
C7_Witness ==
    /\ Returned
    /\ \E i, j \in DOMAIN code_variables :
          /\ i < j
          /\ code_variables[i].name = code_variables[j].name
          /\ code_variables[i].value # code_variables[j].value
          /\ code_variables[i].name \in names(pre.suite.variables)
          /\ holds_one(suite.variables, code_variables[j].name, code_variables[j].value)

has_section(model, kind) ==
    /\ "none" \notin DOMAIN model
    /\ \E i \in DOMAIN model.sections : model.sections[i].kind = kind

\* the run-mode of a snippet in the words of the claim
run_mode(model) ==
    CASE has_section(model, "Tasks") /\ has_section(model, "Test Cases") -> "DataError"
      [] has_section(model, "Tasks") /\ ~has_section(model, "Test Cases") -> "True"
      [] ~has_section(model, "Tasks") /\ has_section(model, "Test Cases") -> "False"
      [] OTHER -> "None"

\* C8: get_rpa_mode returns task mode when all test/task sections are Tasks sections,
\* test mode when all are Test Cases sections, None without such a section or without a
\* model, and raises exactly when there is a section of each kind.
C8_RunModeQuery ==
    qresult # "unset" => qresult = run_mode(qmodel)

\* C8 witness: the query raised for a model whose first test/task section is not its
\* first section and whose sections disagree
C8_Witness ==
    /\ qresult = "DataError"
    /\ "none" \notin DOMAIN qmodel
    /\ Len(qmodel.sections) >= 3
    /\ qmodel.sections[1].kind = "Keywords"
    /\ qmodel.sections[2].kind = "Tasks"

\* C9: after a call that returned normally the mode flag is the run-mode of that call's
\* snippet; after a call that raised it is what it was at entry.
C9_ModeFlag ==
    /\ Returned => suite.rpa = run_mode(code)
    /\ Raised => suite.rpa = pre.suite.rpa

\* C9 witness: a normal return that turned the flag from test mode to task mode
C9_Witness ==
    /\ Returned
    /\ pre.suite.rpa = "False"
    /\ suite.rpa = "True"

indexer_slots == [i \in DOMAIN listeners |-> IF listeners[i] \in Indexers THEN 1 ELSE 0]

no_slot == [i \in DOMAIN listeners |-> 0]

\* C10: import_from_suite_data is invoked once on each keyword-indexing listener of a
\* call whose run returned, after the run and before the tests are cleared, and on no
\* listener of a call that failed at compile time or whose run raised; such a call
\* leaves every index as it was.
C10_IngestionFollowsSuccess ==
    /\ pc \in {"run", "notify"} => imported = no_slot
    /\ (pc = "idle" /\ outcome \in {"compile_error", "TestSuiteError", "exception"}) =>
          imported = no_slot /\ index = pre.index
    /\ (pc = "clean" \/ (pc = "idle" /\ outcome \in {"ok", "mode_conflict"})) =>
          imported = indexer_slots
    /\ pc = "clean" =>
          /\ calls \in ran
          /\ run_exc = NoExc
          /\ \A t \in Range(built_tests(code, calls)) : t \in Range(suite.tests)

\* C10 witness: the listeners have been notified after the run of a snippet with a test
\* and a keyword, the tests still in the suite
C10_Witness ==
    /\ pc = "clean"
    /\ listeners = <<"obs", "kw1">>
    /\ imported = <<0, 1>>
    /\ suite.tests # << >>
    /\ code_keywords # << >>
    /\ index["kw1"] # pre.index["kw1"]

\* C16: the temporary directory of a call is held while suite.run runs and at no other
\* time: none is held once execute has returned or raised, and never more than one.
C16_TempDirReleased ==
    /\ held_dirs \in {0, 1}
    /\ pc = "run" => held_dirs = 1
    /\ pc # "run" => held_dirs = 0

\* C16 witness: a call whose run raised an exception that is no TestSuiteError has ended
C16_Witness ==
    /\ pc = "idle"
    /\ outcome = "exception"
    /\ calls \in ran
    /\ held_dirs = 0

\* C17: a call that omits `defaults` merges against empty settings, and a call that
\* omits `stderr` runs with a new, empty ErrorStream of its own, whatever earlier calls did.
C17_FreshDefaults ==
    /\ (calls >= 1 /\ defaults_arg = "omitted") => merge_defaults = EmptyDefaults
    /\ pc = "run" => stderr = [call |-> calls, message |-> << >>]

\* C19: from the merge to the end of the run, and until the tests are cleared, the mode
\* flag is what the last normally returned call (or init_suite) left; a call that
\* raises the mode conflict has cleared the tests and not written the flag; the flag is
\* written by a call that returns normally, after its run and with the tests cleared.
C19_ModeAfterRun ==
    /\ pc \in {"run", "notify", "clean"} =>
          suite.rpa = mode_left /\ suite.rpa = pre.suite.rpa
    /\ (pc = "idle" /\ outcome = "mode_conflict") =>
          suite.tests = << >> /\ suite.rpa = mode_left
    /\ Returned =>
          /\ suite.tests = << >>
          /\ calls \in ran
          /\ run_exc = NoExc
          /\ suite.rpa = run_mode(code)

\* C19 witness: the run of a tasks snippet is entered with the flag still at the test
\* mode an earlier, normally returned call left
C19_Witness ==
    /\ pc = "run"
    /\ outcome = "ok"
    /\ suite.tests # << >>
    /\ run_mode(code) = "True"
    /\ suite.rpa = "False"
    /\ calls >= 2

(***************************************************************************)
(* ErrorStream on its own: any sequence of up to MaxOps writes and flushes *)
(* on one stream.  A text is a sequence of characters.                     *)
(***************************************************************************)
Texts == { << >>, <<"a">>, <<"b">>, <<"a", "b">> }

\* line 35: self.message = self.message + message
ErrorStream_append(message, text) == message \o text

\* mutant: the buffer is raised but not emptied
ErrorStream_flush_keep(message) == [message |-> message, payload |-> message]

\* lines 40-45: the buffer is copied, emptied, and the copy raised as TestSuiteError
ErrorStream_flush(message) == [message |-> << >>, payload |-> message]

\* the texts written since the last flush, before the next operation
since_now == IF es_signal.raised THEN << >> ELSE es_since

InitStream ==
    /\ ExecInit("None")
    /\ QueryIdle
    /\ StreamIdle
    /\ CompleteIdle

\* lines 34-38: write(message, flush)
StreamWrite(text, flush) ==
    /\ es_ops < MaxOps
    /\ es_ops' = es_ops + 1
    /\ es_since' = Append(since_now, text)
    /\ LET appended == ErrorStream_append(es_message, text)
       IN  IF flush
           THEN /\ es_message' = ErrorStream_flush(appended).message
                /\ es_signal' = [op |-> "write_flush", raised |-> TRUE,
                                 payload |-> ErrorStream_flush(appended).payload]
           ELSE /\ es_message' = appended
                /\ es_signal' = [op |-> "write", raised |-> FALSE, payload |-> << >>]
    /\ UNCHANGED <<execVars, queryVars, completeVars>>

\* lines 40-45: flush()
StreamFlush ==
    /\ es_ops < MaxOps
    /\ es_ops' = es_ops + 1
    /\ es_since' = since_now
    /\ es_message' = ErrorStream_flush(es_message).message
    /\ es_signal' = [op |-> "flush", raised |-> TRUE,
                     payload |-> ErrorStream_flush(es_message).payload]
    /\ UNCHANGED <<execVars, queryVars, completeVars>>

NextStream ==
    \/ \E text \in Texts, flush \in BOOLEAN : StreamWrite(text, flush)
    \/ StreamFlush

SpecStream == InitStream /\ [][NextStream]_vars

RECURSIVE concat(_)
concat(texts) == IF texts = << >> THEN << >> ELSE Head(texts) \o concat(Tail(texts))

\* C11: every flush, explicit or asked for by a write, raises the concatenation of the
\* texts written since the flush before it and leaves the buffer empty; a write without
\* flush raises nothing and leaves the buffer extended by its text.
C11_FlushRaisesBuffer ==
    /\ es_signal.op \in {"flush", "write_flush"} =>
          /\ es_signal.raised
          /\ es_signal.payload = concat(es_since)
          /\ es_message = << >>
    /\ es_signal.op = "write" =>
          /\ ~es_signal.raised
          /\ es_message = concat(es_since)

\* C11 witness: an explicit flush after a flush and two later writes raised both texts
C11_Witness ==
    /\ es_signal.op = "flush"
    /\ es_ops = 3
    /\ Len(es_since) = 2
    /\ es_signal.payload = <<"a", "b", "a">>

(***************************************************************************)
(* complete.  A text is a sequence of characters; offsets count from 0 as  *)
(* in the source, so the character at offset i of text t is t[i + 1].      *)
(* detect_robot_context, line_at_cursor, remove_prefix and the three       *)
(* matchers live in utils; the matchers are kept as the name of the        *)
(* matcher with the arguments it is given.                                 *)
(***************************************************************************)
\* the value None of an absent cursor position
PyNone == 0 - 1

Upper == <<"A", "B", "C", "D", "E", "F", "G", "H", "I", "J", "K", "L", "M", "N", "O", "P", "Q", "R", "S", "T", "U", "V", "W", "X", "Y", "Z">>
Lower == <<"a", "b", "c", "d", "e", "f", "g", "h", "i", "j", "k", "l", "m", "n", "o", "p", "q", "r", "s", "t", "u", "v", "w", "x", "y", "z">>

py_lower_char(c) ==
    IF \E i \in DOMAIN Upper : Upper[i] = c
    THEN Lower[CHOOSE i \in DOMAIN Upper : Upper[i] = c]
    ELSE c

py_lower(t) == [i \in DOMAIN t |-> py_lower_char(t[i])]

py_startswith(t, p) == Len(p) <= Len(t) /\ SubSeq(t, 1, Len(p)) = p

py_contains(t, p) == \E i \in 1..(Len(t) - Len(p) + 1) : SubSeq(t, i, i + Len(p) - 1) = p

\* t[n:]
py_from(t, n) == SubSeq(t, n + 1, Len(t))

\* t[:n]
py_upto(t, n) == SubSeq(t, 1, IF n < Len(t) THEN n ELSE Len(t))

py_isspace(c) == c \in {" ", "\t", "\n"}

RECURSIVE py_lstrip(_)
py_lstrip(t) == IF t # << >> /\ py_isspace(Head(t)) THEN py_lstrip(Tail(t)) ELSE t

\* line 112: cursor_pos is None and len(code) or cursor_pos
cursor_or_end(code_text, cursor_pos) ==
    LET first == IF cursor_pos = PyNone THEN Len(code_text) ELSE 0   \* 0 stands for False too
    IN  IF first # 0 THEN first ELSE cursor_pos

\* the line that starts at offset `offset`, its line end included
RECURSIVE line_from(_, _)
line_from(code_text, offset) ==
    IF offset >= Len(code_text) THEN << >>
    ELSE IF code_text[offset + 1] = "\n" THEN <<"\n">>
    ELSE <<code_text[offset + 1]>> \o line_from(code_text, offset + 1)

\* utils.line_at_cursor: the line the cursor is in and the offset at which it starts
RECURSIVE line_at_cursor_from(_, _, _)
line_at_cursor_from(code_text, cursor_pos, offset) ==
    IF offset >= Len(code_text) THEN [line |-> << >>, offset |-> offset]
    ELSE LET line == line_from(code_text, offset)
             next_offset == offset + Len(line) + (IF line[Len(line)] = "\n" THEN 0 ELSE 1)
         IN  IF next_offset > cursor_pos THEN [line |-> line, offset |-> offset]
             ELSE line_at_cursor_from(code_text, cursor_pos, next_offset)

line_at_cursor(code_text, cursor_pos) == line_at_cursor_from(code_text, cursor_pos, 0)

\* the length of the run of whitespace that starts at t[i]
RECURSIVE space_run(_, _)
space_run(t, i) == IF i <= Len(t) /\ py_isspace(t[i]) THEN 1 + space_run(t, i + 1) ELSE 0

\* re.split(r"\s{2,}|\t| \| ", t)[-1]: the matches are taken from left to right, each
\* search starting where the match before it ended; `start` is where the last piece begins
RECURSIVE split_last_from(_, _, _)
split_last_from(t, i, start) ==
    IF i > Len(t) THEN SubSeq(t, start, Len(t))
    ELSE IF space_run(t, i) >= 2
         THEN split_last_from(t, i + space_run(t, i), i + space_run(t, i))
    ELSE IF t[i] = "\t" THEN split_last_from(t, i + 1, i + 1)
    ELSE IF i + 2 <= Len(t) /\ SubSeq(t, i, i + 2) = <<" ", "|", " ">>
         THEN split_last_from(t, i + 3, i + 3)
    ELSE split_last_from(t, i + 1, start)

\* line 115
extract_needle(before) == py_lstrip(split_last_from(before, 1, 1))

Sigils == {"$", "@", "&", "%"}

PhraseLibrary == <<"l", "i", "b", "r", "a", "r", "y", " ">>
PhraseImport == <<"i", "m", "p", "o", "r", "t", " ", "l", "i", "b", "r", "a", "r", "y", " ">>
PhraseReload == <<"r", "e", "l", "o", "a", "d", " ", "l", "i", "b", "r", "a", "r", "y", " ">>
PhraseInstance == <<"g", "e", "t", " ", "l", "i", "b", "r", "a", "r", "y", " ", "i", "n", "s", "t", "a", "n", "c", "e">>

\* lines 117-124
library_completion(context, line) ==
    /\ context = "__settings__"
    /\ \/ py_startswith(py_lower(line), PhraseLibrary)
       \/ py_contains(py_lower(line), PhraseImport)
       \/ py_contains(py_lower(line), PhraseReload)
       \/ py_contains(py_lower(line), PhraseInstance)

\* utils.remove_prefix
remove_prefix(t, prefix) == IF py_startswith(t, prefix) THEN py_from(t, Len(prefix)) ELSE t

\* lines 147-151
strip_library_phrases(needle) ==
    remove_prefix(
        remove_prefix(
            remove_prefix(
                remove_prefix(py_lower(needle), PhraseLibrary),
                PhraseImport),
            PhraseReload),
        PhraseInstance \o <<" ">>)

\* mutant: the library test comes before the variable test
completion_domain_library_first(needle, is_library, has_listener) ==
    IF is_library THEN "library"
    ELSE IF needle # << >> /\ needle[1] \in Sigils THEN "variable"
    ELSE IF has_listener THEN "keyword"
    ELSE "none"

\* lines 129, 146, 155: the branch taken
completion_domain(needle, is_library, has_listener) ==
    IF needle # << >> /\ needle[1] \in Sigils THEN "variable"
    ELSE IF is_library THEN "library"
    ELSE IF has_listener THEN "keyword"
    ELSE "none"

\* mutant: the cursor moves behind the brace, the needle is not extended
brace_adjust_cursor_only(line, line_cursor, cursor_pos, needle) ==
    IF Len(line) > line_cursor /\ line[line_cursor + 1] = "}"
    THEN [cursor_pos |-> cursor_pos + 1, needle |-> needle]
    ELSE [cursor_pos |-> cursor_pos, needle |-> needle]

\* lines 142-144
brace_adjust(line, line_cursor, cursor_pos, needle) ==
    IF Len(line) > line_cursor /\ line[line_cursor + 1] = "}"
    THEN [cursor_pos |-> cursor_pos + 1, needle |-> needle \o <<"}">>]
    ELSE [cursor_pos |-> cursor_pos, needle |-> needle]

\* utils.detect_robot_context: the section the cursor is in, an input of the request
detect_robot_context(req) == req.context

CompleteRaised(type) ==
    [raised |-> type, domain |-> "none", matches |-> << >>, cursor_end |-> 0,
     cursor_start |-> 0, metadata |-> << >>, status |-> "none", needle |-> << >>,
     found |-> << >>]

\* lines 109-169.  req: code, cursor_pos, context, keywords_listener ("none" when absent);
\* s: the suite; idx: the keyword indexes.  `found` is the needle of line 115.
complete(req, s, idx) ==
    LET context == detect_robot_context(req)
        cursor_pos == cursor_or_end(req.code, req.cursor_pos)
    IN  IF cursor_pos = PyNone THEN CompleteRaised("TypeError")   \* line 114: None - offset
        ELSE
        LET at == line_at_cursor(req.code, cursor_pos)
            line == at.line
            line_cursor == cursor_pos - at.offset
            needle == extract_needle(py_upto(line, line_cursor))
            domain == completion_domain(needle, library_completion(context, line),
                                        req.keywords_listener # "none")
            adjusted == IF domain = "variable"
                        THEN brace_adjust(line, line_cursor, cursor_pos, needle)
                        ELSE IF domain = "library"
                        THEN [cursor_pos |-> cursor_pos, needle |-> strip_library_phrases(needle)]
                        ELSE [cursor_pos |-> cursor_pos, needle |-> needle]
            matches ==
                CASE domain = "variable" ->
                        <<[matcher |-> "scored_results", needle |-> needle,
                           over |-> names(s.variables)]>>
                  [] domain = "library" ->
                        <<[matcher |-> "complete_libraries", needle |-> adjusted.needle,
                           over |-> {}]>>
                  [] domain = "keyword" ->
                        <<[matcher |-> "get_lunr_completions", needle |-> needle,
                           over |-> idx[req.keywords_listener]]>>
                  [] OTHER -> << >>
        IN  [raised |-> "none", domain |-> domain, matches |-> matches,
             cursor_end |-> adjusted.cursor_pos,
             cursor_start |-> adjusted.cursor_pos - Len(adjusted.needle),
             metadata |-> << >>, status |-> "ok", needle |-> adjusted.needle,
             found |-> needle]

(***************************************************************************)
(* complete as a function of its request: every text over Alphabet of at   *)
(* most MaxLen characters, and the lines of Lines, with every cursor       *)
(* position in the text and the absent one.                                *)
(***************************************************************************)
Alphabet == {"a", " ", "|", "\t", "$", "}"}

Generated == UNION {[1..n -> Alphabet] : n \in 0..MaxLen}

Lines == {
    <<"L", "i", "b", "r", "a", "r", "y", " ", " ", " ", " ", "C", "o", "l", "l">>,
    <<"L", "i", "b", "r", "a", "r", "y", " ", "C", "o", "l", "l">>,
    <<"L", "i", "b", "r", "a", "r", "y", " ", " ", " ", " ", "$", "{", "H">>,
    <<"L", "i", "b", "r", "a", "r", "y", " ", "I", "m", "p", "o", "r", "t", " ", "L", "i", "b", "r", "a", "r", "y", " ", "x">>,
    <<"I", "m", "p", "o", "r", "t", " ", "L", "i", "b", "r", "a", "r", "y", " ", "L", "i", "b", "r", "a", "r", "y", " ", "x">>,
    <<"a", " ", "|", " ", "|", " ", "b">>,
    <<"|", " ", "L", "o", "g", " ", " ", " ", " ", "|", " ", "$", "{", "H", "O">>,
    <<"a", "\n", "L", "o", "g", " ", " ", " ", " ", "$", "{", "H", "O", "}">>,
    <<"L", "o">>
}

Contexts == {"__root__", "__settings__"}

CursorsOf(code_text) == {PyNone} \cup 0..Len(code_text)

\* the requests over `texts`: every cursor position in the text, and the absent one
RequestsOver(texts, cursors, contexts) ==
    {req \in [code : texts, cursor_pos : cursors, context : contexts,
              keywords_listener : {"none", "kw1"}] : req.cursor_pos \in CursorsOf(req.code)}

GeneratedRequests == RequestsOver(Generated, {PyNone} \cup 0..MaxLen, {"__root__"})

LongestLine == CHOOSE n \in {Len(t) : t \in Lines} : \A t \in Lines : Len(t) <= n

LineRequests == RequestsOver(Lines, {PyNone} \cup 0..LongestLine, Contexts)

\* lines 109-169 assign to nothing of the suite and to nothing of a listener
\* mutant: the call empties the variables of the suite
suite_after_complete_cleared(s, req) == [s EXCEPT !.variables = << >>]

suite_after_complete(s, req) == s

index_after_complete(idx, req) == idx

\* a call of complete between two calls of execute
Complete(req) ==
    /\ pc = "idle"
    /\ creq' = req
    /\ cres' = complete(req, suite, index)
    /\ suite' = suite_after_complete(suite, req)
    /\ index' = index_after_complete(index, req)
    /\ UNCHANGED <<pc, code, listeners, snap, held_dirs, exc, run_exc, calls, outcome, pre,
                   declared, ran, handed, imported, shared_defaults, stderr, defaults_arg,
                   merge_defaults, mode_left, queryVars, streamVars>>

\* one call of complete on a request
CompleteOnce ==
    \/ \E req \in (IF creq = NoRequest THEN GeneratedRequests ELSE {}) : Complete(req)
    \/ \E req \in (IF creq = NoRequest THEN LineRequests ELSE {}) : Complete(req)

NextComplete == CompleteOnce

SpecComplete == Init /\ [][NextComplete]_vars

(***************************************************************************)
(* Properties of complete                                                  *)
(***************************************************************************)
Completed == creq # NoRequest

\* the cursor position the caller means: the end of the text when none is given
given_cursor == IF creq.cursor_pos = PyNone THEN Len(creq.code) ELSE creq.cursor_pos

\* the current line up to the cursor
before_cursor ==
    LET at == line_at_cursor(creq.code, given_cursor)
    IN  py_upto(at.line, given_cursor - at.offset)

current_line == line_at_cursor(creq.code, given_cursor).line

\* C12: whatever the text, the cursor position and the listener, complete returns a
\* result with status "ok", empty metadata and a match list, and does not raise.
C12_NeverFails ==
    Completed => /\ cres.raised = "none"
                 /\ cres.status = "ok"
                 /\ cres.metadata = << >>

\* the positions at which a separator ends: a tab, a pipe between two spaces, the second
\* or a later space of a run of spaces
separator_ends(t) ==
    {j \in 1..Len(t) :
        \/ t[j] = "\t"
        \/ j >= 3 /\ SubSeq(t, j - 2, j) = <<" ", "|", " ">>
        \/ j >= 2 /\ t[j] = " " /\ t[j - 1] = " "}

has_separator(t) == separator_ends(t) # {}

after_last_separator(t) ==
    IF has_separator(t)
    THEN py_from(t, CHOOSE j \in separator_ends(t) : \A k \in separator_ends(t) : k <= j)
    ELSE t

is_suffix(n, t) == Len(n) <= Len(t) /\ py_from(t, Len(t) - Len(n)) = n

\* C18: the needle is the text before the cursor on the current line that follows the
\* last separator, left-trimmed; so it is a suffix of that text, starts with no
\* whitespace, holds no separator, and is the whole left-trimmed text when there is no
\* separator in it.
C18_NeedleAfterLastSeparator ==
    (Completed /\ cres.raised = "none") =>
        /\ cres.found = py_lstrip(after_last_separator(before_cursor))
        /\ is_suffix(cres.found, before_cursor)
        /\ cres.found = << >> \/ ~py_isspace(cres.found[1])
        /\ ~has_separator(cres.found)
        /\ ~has_separator(before_cursor) => cres.found = py_lstrip(before_cursor)

is_variable_needle == cres.found # << >> /\ cres.found[1] \in Sigils

is_library_line ==
    /\ creq.context = "__settings__"
    /\ \/ py_startswith(py_lower(current_line), PhraseLibrary)
       \/ \E p \in {PhraseImport, PhraseReload, PhraseInstance} :
              py_contains(py_lower(current_line), p)

precedence ==
    /\ is_variable_needle => cres.domain = "variable"
    /\ (~is_variable_needle /\ is_library_line) => cres.domain = "library"
    /\ (~is_variable_needle /\ ~is_library_line /\ creq.keywords_listener # "none")
            => cres.domain = "keyword"
    /\ (~is_variable_needle /\ ~is_library_line /\ creq.keywords_listener = "none")
            => cres.domain = "none" /\ cres.matches = << >>
    /\ Len(cres.matches) <= 1
    /\ \A i \in DOMAIN cres.matches :
          cres.matches[i].matcher =
              CASE cres.domain = "variable" -> "scored_results"
                [] cres.domain = "library" -> "complete_libraries"
                [] OTHER -> "get_lunr_completions"

\* t without the first phrase of `phrases` it starts with, and so on through the list
RECURSIVE strip_in_order(_, _)
strip_in_order(t, phrases) ==
    IF phrases = << >> THEN t
    ELSE strip_in_order(IF py_startswith(t, Head(phrases)) THEN py_from(t, Len(Head(phrases))) ELSE t,
                        Tail(phrases))

spaced(p) == p \o <<" ">>

\* C13 (as stated): one domain in the precedence variable, library, keyword, none; in the
\* library branch the leading phrases are stripped from the needle longest first.
C13_LongestFirst ==
    (Completed /\ cres.raised = "none") =>
        /\ precedence
        /\ cres.domain = "library" =>
              cres.needle = strip_in_order(py_lower(cres.found),
                                <<spaced(PhraseInstance), PhraseImport, PhraseReload, PhraseLibrary>>)

\* C13 (amended): one domain in the precedence variable, library, keyword, none; in the
\* library branch the lowercased needle loses, in this fixed order and each at most once,
\* the leading phrases "library ", "import library ", "reload library ",
\* "get library instance ".
C13_DomainPrecedence ==
    (Completed /\ cres.raised = "none") =>
        /\ precedence
        /\ cres.domain = "library" =>
              cres.needle = strip_in_order(py_lower(cres.found),
                                <<PhraseLibrary, PhraseImport, PhraseReload, spaced(PhraseInstance)>>)

\* a variable needle on a library line of the settings section, with a keyword listener
\* given, and a library needle of which two phrases were stripped
C13_Witness ==
    /\ Completed /\ cres.raised = "none"
    /\ cres.domain = "variable" /\ is_library_line /\ creq.keywords_listener # "none"

C13_WitnessLibrary ==
    /\ Completed /\ cres.raised = "none"
    /\ cres.domain = "library"
    /\ Len(cres.found) - Len(cres.needle) > Len(PhraseImport)

brace_follows == given_cursor < Len(creq.code) /\ creq.code[given_cursor + 1] = "}"

\* C14: cursor_start = cursor_end - len(needle) <= cursor_end in every result; in the
\* variable branch cursor_end is the given cursor plus one when a closing brace follows
\* the cursor, else the given cursor, and cursor_start is the offset of the sigil the
\* needle starts with.
C14_CursorRange ==
    (Completed /\ cres.raised = "none") =>
        /\ cres.cursor_start = cres.cursor_end - Len(cres.needle)
        /\ cres.cursor_start <= cres.cursor_end
        /\ cres.domain = "variable" =>
              /\ cres.cursor_end = (IF brace_follows THEN given_cursor + 1 ELSE given_cursor)
              /\ cres.cursor_start >= 0
              /\ creq.code[cres.cursor_start + 1] \in Sigils
              /\ SubSeq(creq.code, cres.cursor_start + 1, given_cursor) = cres.found

\* a variable needle in the second line of a text, the cursor in front of a closing brace
C14_Witness ==
    /\ Completed /\ cres.raised = "none"
    /\ cres.domain = "variable" /\ brace_follows
    /\ cres.cursor_end = given_cursor + 1
    /\ cres.cursor_start > 2
    /\ Len(cres.needle) > 2

(***************************************************************************)
(* A session: calls of complete between the calls of execute.              *)
(***************************************************************************)
\* the snippets that declare a keyword and a task, and the one with a fatal error
SessionSnippets ==
    {c \in Snippets :
        \/ c.fatal
        \/ /\ \E i \in DOMAIN c.sections : c.sections[i].kind = "Keywords"
           /\ \E i \in DOMAIN c.sections : c.sections[i].kind = "Tasks"}

\* the calls of execute that bring the keyword-indexing listener kw1 and another listener
SessionArgs ==
    {a \in CallArgs : /\ \E i \in DOMAIN a.listeners : a.listeners[i] = "kw1"
                     /\ \E i \in DOMAIN a.listeners : a.listeners[i] \notin Indexers}

\* one request for each branch of complete, and the empty text without a cursor
SessionRequests ==
    { [code |-> <<"L", "i", "b", "r", "a", "r", "y", " ", " ", " ", " ", "$", "{", "H">>, cursor_pos |-> PyNone, context |-> "__settings__", keywords_listener |-> "kw1"],
      [code |-> <<"L", "i", "b", "r", "a", "r", "y", " ", "C", "o", "l", "l">>, cursor_pos |-> PyNone, context |-> "__settings__", keywords_listener |-> "none"],
      [code |-> <<"L", "o">>, cursor_pos |-> PyNone, context |-> "__root__", keywords_listener |-> "kw1"],
      [code |-> <<"L", "o">>, cursor_pos |-> PyNone, context |-> "__root__", keywords_listener |-> "none"],
      [code |-> << >>, cursor_pos |-> PyNone, context |-> "__root__", keywords_listener |-> "none"] }

NextSession ==
    \/ \E c \in SessionSnippets, a \in SessionArgs : Execute(c, a.listeners, a.defaults)
    \/ RunOk
    \/ RunTestSuiteError
    \/ RunOtherException
    \/ NotifyListeners
    \/ Finish
    \/ \E req \in SessionRequests : Complete(req)

SpecSession == Init /\ [][NextSession]_vars

\* C15: a call of complete leaves the suite (imports, variables, keywords, tests, mode
\* flag), the keyword index and everything else a call of execute reads as they were,
\* so the calls of execute before and after it behave as without it.
C15_CompleteReadOnly == [][(creq' # creq \/ cres' # cres) => UNCHANGED execVars]_vars

\* a call of execute is under way after a call of complete that read variables or
\* keywords of a suite two calls of execute had built
C15_Witness ==
    /\ Completed /\ cres.raised = "none"
    /\ pc = "run"
    /\ calls >= 2
    /\ cres.matches # << >> /\ cres.matches[1].over # {}

====
